---- MODULE Spec2Model ----
(***************************************************************************)
(* Model of the IPSC -> AMBE bridge callback ambeIPSC.group_voice and of   *)
(* the debug dump ambeIPSC.dumpIPSCFrame (src/dmrlink_ipsc_bridge.py).     *)
(*                                                                         *)
(* A received buffer is modelled by its length and by the bytes the code   *)
(* reads: byte 5 (stream id), bytes 20..21 (call sequence number), byte 30 *)
(* (payload type) and bytes 33..51 (the 19-byte AMBE window).  Python      *)
(* slices are modelled as they behave on short buffers: a slice past the   *)
(* end is shorter or empty, it does not raise.                             *)
(*                                                                         *)
(* The per-slot transmit record (ipsc_ambe.tx[_ts]) and the three gateway  *)
(* calls begin_call / end_call / export_voice belong to the AMBE_IPSC      *)
(* object of dmr_utils.ambe_bridge, which this file only calls; their      *)
(* effect is modelled from sections 3 and 4.3 of the specification         *)
(* (SlotState and the slot state machine).                                 *)
(***************************************************************************)
EXTENDS Integers, Sequences, FiniteSets, TLC

(***************************************************************************)
(* tx         the slot table self.ipsc_ambe.tx: per timeslot the fields    *)
(*            stream_id, lastSeq, frame_count (read and written by         *)
(*            group_voice) and busy (SlotState.busy)                       *)
(* last       the most recent callback: which one (op), its timeslot and   *)
(*            buffer, the slot table before it (pre), the events it handed *)
(*            to the gateway (evs) and how it ended (outcome: "ok" or the  *)
(*            exception raised)                                            *)
(* lifecycle  per timeslot, the last of begin-call / end-call handed to    *)
(*            the gateway ("none" before the first)                        *)
(* nBegin     per timeslot, the number of begin-call events so far         *)
(* nEnd       per timeslot, the number of end-call events so far           *)
(* nframes    the number of buffers handled so far                         *)
(*                                                                         *)
(* The trace specification also records what an observer of the bridge     *)
(* sees over time; the other specifications leave these empty:             *)
(* hist       the callbacks made so far, in order: which one, its timeslot *)
(*            and buffer, whether the gateway was reachable, the header    *)
(*            fields the dump decoded, and how the call ended              *)
(* calls      the events group_voice handed to the gateway object so far,  *)
(*            in order, each with the number of the callback that made it  *)
(* gateway    the events that reached the vocoder gateway, in order        *)
(* dropped    the dispatcher's count of dropped events                     *)
(***************************************************************************)
VARIABLES tx, last, lifecycle, nBegin, nEnd, nframes, hist, calls, gateway, dropped

vars == <<tx, last, lifecycle, nBegin, nEnd, nframes, hist, calls, gateway, dropped>>

(***************************************************************************)
(* Bounds of the model.                                                    *)
(***************************************************************************)
\* Number of buffers handed to the callbacks in one run.
MaxFrames == 3
\* Largest number n of voice-data frames in the head/data/term sequence of C1.
MaxVoice == 2

(***************************************************************************)
(* Input domains.                                                          *)
(***************************************************************************)
Slots == {1, 2}
StreamIds == {5, 9}
\* bytes 20..21 of a buffer, big-endian: the values 7 and 258
SeqBytes == {<<0, 7>>, <<1, 2>>}
SrcSubs == {3001}
DstSubs == {9}
PeerIds == {1234}
\* BURST_DATA_TYPE of ipsc.ipsc_const, by name; "OTHER" is any other byte
BURST_DATA_TYPE ==
    [VOICE_HEAD |-> "VOICE_HEAD", VOICE_TERM |-> "VOICE_TERM",
     SLOT1_VOICE |-> "SLOT1_VOICE", SLOT2_VOICE |-> "SLOT2_VOICE"]

\* value of active_stream_id when no call has occupied the slot
NoStream == -1

(***************************************************************************)
(* Bits and bytes.                                                         *)
(***************************************************************************)
Min(a, b) == IF a < b THEN a ELSE b
Max(a, b) == IF a > b THEN a ELSE b

Pow2(n) == 2 ^ n

\* the 8 bits of each byte value, most significant first
ByteBits == [b \in 0..255 |-> [i \in 1..8 |-> (b \div Pow2(8 - i)) % 2]]
BitsOfByte(b) == ByteBits[b]

\* BitArray('0x' + h(bytes)): the bits of a byte string, in order
BitArray(bs) ==
    [i \in 1..(8 * Len(bs)) |-> BitsOfByte(bs[((i - 1) \div 8) + 1])[((i - 1) % 8) + 1]]

\* BitArray slice bits[a:b] (0-based, end exclusive, clamped to the length)
BitSlice(bits, a, b) == SubSeq(bits, Min(a, Len(bits)) + 1, Min(b, Len(bits)))

\* BitArray.tobytes(): pad with zero bits at the end up to a whole byte
tobytes(bits) ==
    LET n == (Len(bits) + 7) \div 8
        bit(i) == IF i <= Len(bits) THEN bits[i] ELSE 0
        byte(j) == bit(8*j - 7) * 128 + bit(8*j - 6) * 64 + bit(8*j - 5) * 32
                   + bit(8*j - 4) * 16 + bit(8*j - 3) * 8 + bit(8*j - 2) * 4
                   + bit(8*j - 1) * 2 + bit(8*j)
    IN [j \in 1..n |-> byte(j)]

\* int_id of fne.fne_core: the big-endian value of a non-empty byte string
RECURSIVE int_id(_)
int_id(bs) ==
    IF Len(bs) = 1 THEN bs[1]
    ELSE int_id(SubSeq(bs, 1, Len(bs) - 1)) * 256 + bs[Len(bs)]

(***************************************************************************)
(* Buffers.                                                                *)
(***************************************************************************)
\* the AMBE windows used by the state-machine specification
ZeroWindow == [i \in 1..19 |-> 0]
AltWindow == [i \in 1..19 |-> 170]

Buffer(len, b5, sq, b30, win) ==
    [len |-> len, b5 |-> b5, b20 |-> sq[1], b21 |-> sq[2], b30 |-> b30, win |-> win]

\* the byte of the buffer at offset i (offsets the code never reads are 0)
ByteAt(d, i) ==
    CASE i = 5 -> d.b5
      [] i = 20 -> d.b20
      [] i = 21 -> d.b21
      [] i = 30 -> d.b30
      [] i \in 33..51 -> d.win[i - 32]
      [] OTHER -> 0

\* Python slice _data[a:b]
Slice(d, a, b) ==
    LET n == Max(0, Min(b, d.len) - a)
    IN [k \in 1..n |-> ByteAt(d, a + k - 1)]

(***************************************************************************)
(* The buffers handed to the callbacks.  Their lengths: 10 ends before the *)
(* sequence field (bytes 20..21), 25 before the payload type byte (30),    *)
(* 40 inside the AMBE window (bytes 33..51), 52 is a complete voice        *)
(* buffer.  Bytes that lie past the end of a buffer, and bytes no branch   *)
(* reads for that payload type, are fixed.                                 *)
(***************************************************************************)
Frames ==
    {Buffer(10, 0, <<0, 0>>, "OTHER", ZeroWindow)}
    \cup {Buffer(25, 5, sq, "OTHER", ZeroWindow) : sq \in SeqBytes}
    \cup {Buffer(52, s, sq, "VOICE_HEAD", ZeroWindow) : s \in StreamIds, sq \in SeqBytes}
    \cup {Buffer(52, 5, sq, pt, ZeroWindow) : sq \in SeqBytes, pt \in {"VOICE_TERM", "OTHER"}}
    \cup {Buffer(40, 5, sq, "VOICE_TERM", ZeroWindow) : sq \in SeqBytes}
    \cup {Buffer(len, 5, sq, pt, AltWindow) :
              len \in {40, 52}, sq \in SeqBytes, pt \in {"SLOT1_VOICE", "SLOT2_VOICE"}}

\* 49-bit sub-frame patterns and the AMBE windows packed from them, used by
\* the bit-extraction specification
Zeros49 == [i \in 1..49 |-> 0]
Ones49 == [i \in 1..49 |-> 1]
Alt10 == [i \in 1..49 |-> i % 2]
Alt01 == [i \in 1..49 |-> (i + 1) % 2]
Patterns == {Zeros49, Ones49, Alt10, Alt01}

\* first bit of sub-frame k (k = 0, 1, 2) in the AMBE window, as the handler
\* reads it: _ambe_frames[0:49], [50:99], [100:149]
SubFrameStart(k) == 50 * k

\* a window holding p0, p1, p2 at SubFrameStart(0..2), every other bit = g
PackStrided(p0, p1, p2, g) ==
    tobytes(p0 \o <<g>> \o p1 \o <<g>> \o p2 \o <<g, g, g>>)

\* a window holding p0, p1, p2 back to back (at bit 49k), every other bit = g
PackConsecutive(p0, p1, p2, g) ==
    tobytes(p0 \o p1 \o p2 \o <<g, g, g, g, g>>)

Windows ==
    {PackStrided(p0, p1, p2, g) : p0 \in Patterns, p1 \in Patterns, p2 \in Patterns, g \in {0, 1}}
    \cup {PackConsecutive(p0, p1, p2, g) :
              p0 \in Patterns, p1 \in Patterns, p2 \in Patterns, g \in {0, 1}}

BitFrames ==
    {Buffer(52, 5, <<1, 2>>, pt, w) : pt \in {"SLOT1_VOICE", "SLOT2_VOICE"}, w \in Windows}

(***************************************************************************)
(* The per-slot transmit record and the gateway calls (AMBE_IPSC).         *)
(***************************************************************************)
\* SlotState after construction: no stream, nothing counted, not busy
InitSlot == [stream_id |-> NoStream, lastSeq |-> 0, frame_count |-> 0, busy |-> FALSE]

\* m is the pair (slot record, events handed to the gateway so far)
Emit(m, ev) == [m EXCEPT !.evs = Append(@, ev)]

\* begin_call: captures the stream id, resets frame_count and last_sequence,
\* marks the slot busy and emits the begin-call event
begin_call(m, _ts, _src_sub, _dst_sub, _peerid, _seq, _stream_id) ==
    Emit([m EXCEPT !.slot = [stream_id |-> _stream_id, lastSeq |-> _seq,
                             frame_count |-> 0, busy |-> TRUE]],
         [type |-> "BeginCall", slot |-> _ts, src |-> _src_sub, dst |-> _dst_sub,
          peer |-> _peerid, stream |-> _stream_id, seq |-> _seq])

\* a gateway that forgets to clear busy
end_call_keeps_busy(m, _ts) == Emit(m, [type |-> "EndCall", slot |-> _ts])

\* end_call: emits the end-call event and clears busy
end_call(m, _ts) ==
    Emit([m EXCEPT !.slot.busy = FALSE], [type |-> "EndCall", slot |-> _ts])

\* export_voice: emits the voice-payload event, tagged with the active stream
\* (flagged orphaned when the slot is not busy), and records the sequence
export_voice(m, _ts, _seq, _ambe) ==
    Emit([m EXCEPT !.slot.lastSeq = _seq],
         [type |-> "VoicePayload", slot |-> _ts, seq |-> _seq, payload |-> _ambe,
          stream |-> IF m.slot.busy THEN m.slot.stream_id ELSE NoStream,
          frame_count |-> m.slot.frame_count, orphaned |-> ~m.slot.busy])

(***************************************************************************)
(* ambeIPSC.group_voice, statement by statement.                           *)
(***************************************************************************)
\* a handler that counts voice-data frames only
FrameCountVoiceOnly(m, _data) ==
    IF \/ Slice(_data, 30, 31) = <<BURST_DATA_TYPE.SLOT1_VOICE>>
       \/ Slice(_data, 30, 31) = <<BURST_DATA_TYPE.SLOT2_VOICE>>
    THEN [m EXCEPT !.slot.frame_count = @ + 1]
    ELSE m

\* _tx_slot.frame_count += 1
FrameCountStep(m, _data) == [m EXCEPT !.slot.frame_count = @ + 1]

\* a handler that ends the preempted call before it begins the new one
VoiceHeadEndsPreempted(m, _src_sub, _dst_sub, _ts, _peerid, _seq, _data) ==
    IF Slice(_data, 30, 31) = <<BURST_DATA_TYPE.VOICE_HEAD>>
    THEN LET _stream_id == int_id(Slice(_data, 5, 6))
             m0 == IF m.slot.busy THEN end_call(m, _ts) ELSE m
             m1 == IF _stream_id # m.slot.stream_id
                   THEN begin_call(m0, _ts, _src_sub, _dst_sub, _peerid, _seq, _stream_id)
                   ELSE m
         IN [m1 EXCEPT !.slot.lastSeq = _seq]
    ELSE m

\* a handler that records the sequence only when it begins a call
VoiceHeadSeqOnBeginOnly(m, _src_sub, _dst_sub, _ts, _peerid, _seq, _data) ==
    IF Slice(_data, 30, 31) = <<BURST_DATA_TYPE.VOICE_HEAD>>
    THEN LET _stream_id == int_id(Slice(_data, 5, 6))
         IN IF _stream_id # m.slot.stream_id
            THEN begin_call(m, _ts, _src_sub, _dst_sub, _peerid, _seq, _stream_id)
            ELSE m
    ELSE m

\* a handler that begins a call at every voice-head
VoiceHeadAlwaysBegins(m, _src_sub, _dst_sub, _ts, _peerid, _seq, _data) ==
    IF Slice(_data, 30, 31) = <<BURST_DATA_TYPE.VOICE_HEAD>>
    THEN LET _stream_id == int_id(Slice(_data, 5, 6))
             m1 == begin_call(m, _ts, _src_sub, _dst_sub, _peerid, _seq, _stream_id)
         IN [m1 EXCEPT !.slot.lastSeq = _seq]
    ELSE m

\* a handler that is polite to a call in progress: a voice-head on a busy
\* slot does not begin a call
VoiceHeadOnlyWhenIdle(m, _src_sub, _dst_sub, _ts, _peerid, _seq, _data) ==
    IF Slice(_data, 30, 31) = <<BURST_DATA_TYPE.VOICE_HEAD>>
    THEN LET _stream_id == int_id(Slice(_data, 5, 6))
             m1 == IF _stream_id # m.slot.stream_id /\ ~m.slot.busy
                   THEN begin_call(m, _ts, _src_sub, _dst_sub, _peerid, _seq, _stream_id)
                   ELSE m
         IN [m1 EXCEPT !.slot.lastSeq = _seq]
    ELSE m

\* if _payload_type == BURST_DATA_TYPE['VOICE_HEAD']: ...
VoiceHead(m, _src_sub, _dst_sub, _ts, _peerid, _seq, _data) ==
    IF Slice(_data, 30, 31) = <<BURST_DATA_TYPE.VOICE_HEAD>>
    THEN LET _stream_id == int_id(Slice(_data, 5, 6))
             m1 == IF _stream_id # m.slot.stream_id
                   THEN begin_call(m, _ts, _src_sub, _dst_sub, _peerid, _seq, _stream_id)
                   ELSE m
         IN [m1 EXCEPT !.slot.lastSeq = _seq]
    ELSE m

\* if _payload_type == BURST_DATA_TYPE['VOICE_TERM']: ...
VoiceTerm(m, _ts, _data) ==
    IF Slice(_data, 30, 31) = <<BURST_DATA_TYPE.VOICE_TERM>>
    THEN end_call(m, _ts)
    ELSE m

\* a handler that takes the three sub-frames back to back
ambe_payload_consecutive(_data) ==
    LET _ambe_frames == BitArray(Slice(_data, 33, 52))
    IN tobytes(BitSlice(_ambe_frames, 0, 49)) \o tobytes(BitSlice(_ambe_frames, 49, 98))
       \o tobytes(BitSlice(_ambe_frames, 98, 147))

\* a handler that cuts each sub-frame one bit short
ambe_payload_48(_data) ==
    LET _ambe_frames == BitArray(Slice(_data, 33, 52))
    IN tobytes(BitSlice(_ambe_frames, 0, 48)) \o tobytes(BitSlice(_ambe_frames, 50, 98))
       \o tobytes(BitSlice(_ambe_frames, 100, 148))

\* the three AMBE sub-frames cut out of _data[33:52] and their concatenation
ambe_payload(_data) ==
    LET _ambe_frames == BitArray(Slice(_data, 33, 52))
        _ambe_frame1 == BitSlice(_ambe_frames, 0, 49)
        _ambe_frame2 == BitSlice(_ambe_frames, 50, 99)
        _ambe_frame3 == BitSlice(_ambe_frames, 100, 149)
    IN tobytes(_ambe_frame1) \o tobytes(_ambe_frame2) \o tobytes(_ambe_frame3)

\* ambe_payload of every voice-data buffer of the model, computed once
VoiceBuffers ==
    {f \in Frames \cup BitFrames : f.b30 \in {"SLOT1_VOICE", "SLOT2_VOICE"}}
AmbeOf == [d \in VoiceBuffers |-> ambe_payload(d)]

\* a handler whose voice-data branch also takes the voice terminator
VoiceDataAlsoOnTerm(m, _ts, _seq, _data) ==
    IF \/ Slice(_data, 30, 31) = <<BURST_DATA_TYPE.SLOT1_VOICE>>
       \/ Slice(_data, 30, 31) = <<BURST_DATA_TYPE.SLOT2_VOICE>>
    THEN export_voice(m, _ts, _seq, AmbeOf[_data])
    ELSE IF Slice(_data, 30, 31) = <<BURST_DATA_TYPE.VOICE_TERM>>
    THEN export_voice(m, _ts, _seq, << >>)
    ELSE m

\* a handler that exports voice with the packet sequence byte (byte 5) in
\* place of the call sequence number
VoiceDataIpscSeq(m, _ts, _seq, _data) ==
    IF \/ Slice(_data, 30, 31) = <<BURST_DATA_TYPE.SLOT1_VOICE>>
       \/ Slice(_data, 30, 31) = <<BURST_DATA_TYPE.SLOT2_VOICE>>
    THEN export_voice(m, _ts, int_id(Slice(_data, 5, 6)), AmbeOf[_data])
    ELSE m

\* a handler that exports voice only while a call is in progress
VoiceDataDropsOrphans(m, _ts, _seq, _data) ==
    IF /\ m.slot.busy
       /\ \/ Slice(_data, 30, 31) = <<BURST_DATA_TYPE.SLOT1_VOICE>>
          \/ Slice(_data, 30, 31) = <<BURST_DATA_TYPE.SLOT2_VOICE>>
    THEN export_voice(m, _ts, _seq, AmbeOf[_data])
    ELSE m

\* if (_payload_type == SLOT1_VOICE) or (_payload_type == SLOT2_VOICE): ...
VoiceData(m, _ts, _seq, _data) ==
    IF \/ Slice(_data, 30, 31) = <<BURST_DATA_TYPE.SLOT1_VOICE>>
       \/ Slice(_data, 30, 31) = <<BURST_DATA_TYPE.SLOT2_VOICE>>
    THEN export_voice(m, _ts, _seq, AmbeOf[_data])
    ELSE m

\* One call of group_voice on the slot record `slot` (the parameter _end is
\* never read and is left out).  int_id of the empty slice _data[20:22]
\* raises before anything is written.
group_voice(slot, _src_sub, _dst_sub, _ts, _peerid, _data) ==
    IF Slice(_data, 20, 22) = << >>
    THEN [slot |-> slot, evs |-> << >>, outcome |-> "ValueError"]
    ELSE LET _seq == int_id(Slice(_data, 20, 22))
             m0 == [slot |-> slot, evs |-> << >>]
             m1 == FrameCountStep(m0, _data)
             m2 == VoiceHead(m1, _src_sub, _dst_sub, _ts, _peerid, _seq, _data)
             m3 == VoiceTerm(m2, _ts, _data)
             m4 == VoiceData(m3, _ts, _seq, _data)
         IN [slot |-> m4.slot, evs |-> m4.evs, outcome |-> "ok"]

(***************************************************************************)
(* The header fields dumpIPSCFrame decodes from a buffer, each the         *)
(* big-endian value of its byte range, and the payload type byte.  A       *)
(* buffer of at most 30 bytes yields no fields (the dump raises first).    *)
(* The flags _ts and _end are masks of _call_info and are left out.        *)
(***************************************************************************)
NoFields == [decoded |-> FALSE]

decode(_frame) ==
    IF _frame.len <= 30 THEN NoFields
    ELSE [decoded |-> TRUE,
          _packettype |-> int_id(Slice(_frame, 0, 1)),
          _peerid |-> int_id(Slice(_frame, 1, 5)),
          _ipsc_seq |-> int_id(Slice(_frame, 5, 6)),
          _src_sub |-> int_id(Slice(_frame, 6, 9)),
          _dst_sub |-> int_id(Slice(_frame, 9, 12)),
          _call_type |-> int_id(Slice(_frame, 12, 13)),
          _call_ctrl_info |-> int_id(Slice(_frame, 13, 17)),
          _call_info |-> int_id(Slice(_frame, 17, 18)),
          _rtp_byte_1 |-> int_id(Slice(_frame, 18, 19)),
          _rtp_byte_2 |-> int_id(Slice(_frame, 19, 20)),
          _rtp_seq |-> int_id(Slice(_frame, 20, 22)),
          _rtp_tmstmp |-> int_id(Slice(_frame, 22, 26)),
          _rtp_ssid |-> int_id(Slice(_frame, 26, 30)),
          _payload_type |-> ByteAt(_frame, 30)]

(***************************************************************************)
(* ambeIPSC.dumpIPSCFrame: reads the header fields, the payload type byte  *)
(* _frame[30] and, for a voice terminator, bytes 31..46; it prints and     *)
(* writes nothing.  Its outcome is the exception it ends with, if any.     *)
(***************************************************************************)
dumpIPSCFrame(_frame) ==
    IF _frame.len <= 26 THEN "ValueError"          \* int_id of an empty header slice
    ELSE IF _frame.len <= 30 THEN "IndexError"     \* _frame[30]
    ELSE IF _frame.b30 # BURST_DATA_TYPE.VOICE_TERM THEN "ok"
    ELSE IF _frame.len \in {32, 36} \cup 41..44 THEN "ValueError"  \* int_id of an empty slice
    ELSE IF _frame.len <= 40 THEN "IndexError"     \* _frame[31] .. _frame[40]
    ELSE "ok"

(***************************************************************************)
(* State machine.                                                          *)
(***************************************************************************)
Count(evs, type) == Cardinality({i \in 1..Len(evs) : evs[i].type = type})

\* the last begin-call / end-call event of evs, or `before` if there is none
LastLifecycle(before, evs) ==
    LET idx == {i \in 1..Len(evs) : evs[i].type \in {"BeginCall", "EndCall"}}
    IN IF idx = {} THEN before
       ELSE evs[CHOOSE i \in idx : \A j \in idx : j <= i].type

Init ==
    /\ tx = [t \in Slots |-> InitSlot]
    /\ last = [op |-> "none", ts |-> 1, data |-> Buffer(10, 0, <<0, 0>>, "OTHER", ZeroWindow),
               pre |-> [t \in Slots |-> InitSlot], evs |-> << >>, outcome |-> "none"]
    /\ lifecycle = [t \in Slots |-> "none"]
    /\ nBegin = [t \in Slots |-> 0]
    /\ nEnd = [t \in Slots |-> 0]
    /\ nframes = 0
    /\ hist = << >>
    /\ calls = << >>
    /\ gateway = << >>
    /\ dropped = 0

\* a handler that keeps one transmit record for both timeslots
group_voice_one_record(_src_sub, _dst_sub, _ts, _peerid, _data) ==
    /\ nframes < MaxFrames
    /\ \E r \in {group_voice(tx[1], _src_sub, _dst_sub, _ts, _peerid, _data)} :
          /\ tx' = [tx EXCEPT ![1] = r.slot]
          /\ last' = [op |-> "group_voice", ts |-> _ts, data |-> _data, pre |-> tx,
                      evs |-> r.evs, outcome |-> r.outcome]
          /\ lifecycle' = [lifecycle EXCEPT ![_ts] = LastLifecycle(@, r.evs)]
          /\ nBegin' = [nBegin EXCEPT ![_ts] = @ + Count(r.evs, "BeginCall")]
          /\ nEnd' = [nEnd EXCEPT ![_ts] = @ + Count(r.evs, "EndCall")]
    /\ nframes' = nframes + 1

\* one call of group_voice on the slot table: timeslot _ts gets the slot
\* record the call leaves, `last` what the call did
group_voice_call(_src_sub, _dst_sub, _ts, _peerid, _data) ==
    /\ nframes < MaxFrames
    /\ \E r \in {group_voice(tx[_ts], _src_sub, _dst_sub, _ts, _peerid, _data)} :
          /\ tx' = [tx EXCEPT ![_ts] = r.slot]
          /\ last' = [op |-> "group_voice", ts |-> _ts, data |-> _data, pre |-> tx,
                      evs |-> r.evs, outcome |-> r.outcome]
          /\ lifecycle' = [lifecycle EXCEPT ![_ts] = LastLifecycle(@, r.evs)]
          /\ nBegin' = [nBegin EXCEPT ![_ts] = @ + Count(r.evs, "BeginCall")]
          /\ nEnd' = [nEnd EXCEPT ![_ts] = @ + Count(r.evs, "EndCall")]
    /\ nframes' = nframes + 1

\* a dump that counts the buffer as a frame of timeslot 1
dumpIPSCFrame_counts(_frame) ==
    /\ nframes < MaxFrames
    /\ tx' = [tx EXCEPT ![1].frame_count = @ + 1]
    /\ last' = [op |-> "dumpIPSCFrame", ts |-> 1, data |-> _frame, pre |-> tx,
                evs |-> << >>, outcome |-> dumpIPSCFrame(_frame)]
    /\ nframes' = nframes + 1
    /\ UNCHANGED <<lifecycle, nBegin, nEnd>>

\* one call of dumpIPSCFrame: it writes no attribute of the bridge
dumpIPSCFrame_call(_frame) ==
    /\ nframes < MaxFrames
    /\ last' = [op |-> "dumpIPSCFrame", ts |-> 1, data |-> _frame, pre |-> tx,
                evs |-> << >>, outcome |-> dumpIPSCFrame(_frame)]
    /\ nframes' = nframes + 1
    /\ UNCHANGED <<tx, lifecycle, nBegin, nEnd>>

\* the transport hands one buffer of timeslot _ts to group_voice
GroupVoice(_src_sub, _dst_sub, _ts, _peerid, _data) ==
    /\ group_voice_call(_src_sub, _dst_sub, _ts, _peerid, _data)
    /\ UNCHANGED <<hist, calls, gateway, dropped>>

\* one buffer is handed to the debug dump
DumpIPSCFrame(_frame) ==
    /\ dumpIPSCFrame_call(_frame)
    /\ UNCHANGED <<hist, calls, gateway, dropped>>

Next ==
    \/ \E _src_sub \in SrcSubs, _dst_sub \in DstSubs, _ts \in Slots,
          _peerid \in PeerIds, _data \in Frames :
          GroupVoice(_src_sub, _dst_sub, _ts, _peerid, _data)
    \/ \E _frame \in Frames : DumpIPSCFrame(_frame)

Spec == Init /\ [][Next]_vars

(***************************************************************************)
(* Bit-field extraction on its own: one voice-data buffer whose AMBE       *)
(* window is packed from three 49-bit patterns is handed to group_voice.   *)
(***************************************************************************)
ExtractVoice(_src_sub, _dst_sub, _ts, _peerid, _data) ==
    /\ last.op = "none"
    /\ GroupVoice(_src_sub, _dst_sub, _ts, _peerid, _data)

NextBits ==
    \E _src_sub \in SrcSubs, _dst_sub \in DstSubs, _ts \in Slots,
       _peerid \in PeerIds, _data \in BitFrames :
       ExtractVoice(_src_sub, _dst_sub, _ts, _peerid, _data)

SpecBits == Init /\ [][NextBits]_vars

(***************************************************************************)
(* Vocabulary of the properties.  `last` describes the most recent call:   *)
(* last.pre is the slot table before it, tx the slot table after it.       *)
(***************************************************************************)
Handled == last.op = "group_voice"
Pre == last.pre[last.ts]
Post == tx[last.ts]
LastType == Slice(last.data, 30, 31)
IsHead == LastType = <<"VOICE_HEAD">>
IsTerm == LastType = <<"VOICE_TERM">>
IsVoice == LastType = <<"SLOT1_VOICE">> \/ LastType = <<"SLOT2_VOICE">>
LastStream == int_id(Slice(last.data, 5, 6))
Begins == Count(last.evs, "BeginCall")
Ends == Count(last.evs, "EndCall")
Payloads == Count(last.evs, "VoicePayload")

\* group_voice applied to a sequence of buffers of one slot, one after another
RECURSIVE RunFrames(_, _, _)
RunFrames(slot, _ts, frames) ==
    IF frames = << >>
    THEN [slot |-> slot, evs |-> << >>, ok |-> TRUE]
    ELSE LET r == group_voice(slot, CHOOSE x \in SrcSubs : TRUE, CHOOSE x \in DstSubs : TRUE,
                              _ts, CHOOSE x \in PeerIds : TRUE, Head(frames))
             rest == RunFrames(r.slot, _ts, Tail(frames))
         IN [slot |-> rest.slot, evs |-> r.evs \o rest.evs,
             ok |-> (r.outcome = "ok" /\ rest.ok)]

HeadFrame(s) == Buffer(52, s, <<0, 7>>, "VOICE_HEAD", ZeroWindow)
TermFrame == Buffer(52, 5, <<0, 7>>, "VOICE_TERM", ZeroWindow)
VoiceFrame(pt) == Buffer(52, 5, <<1, 2>>, pt, AltWindow)
VoiceKinds == UNION {[1..n -> {"SLOT1_VOICE", "SLOT2_VOICE"}] : n \in 0..MaxVoice}
CallFrames(s, kinds) ==
    <<HeadFrame(s)>> \o [i \in 1..Len(kinds) |-> VoiceFrame(kinds[i])] \o <<TermFrame>>

(***************************************************************************)
(* The bridge dispatcher: an event handed to the gateway object while the  *)
(* gateway is reachable is delivered; otherwise it is dropped and counted. *)
(* n is the number of the callback that made the events.                   *)
(***************************************************************************)
Tagged(evs, n) == [i \in 1..Len(evs) |-> [n |-> n, ev |-> evs[i]]]

\* a dispatcher that drops without counting
DispatchUncounted(evs, up, n) ==
    [delivered |-> IF up THEN Tagged(evs, n) ELSE << >>, dropped |-> 0]

Dispatch(evs, up, n) ==
    [delivered |-> IF up THEN Tagged(evs, n) ELSE << >>,
     dropped |-> IF up THEN 0 ELSE Len(evs)]

(***************************************************************************)
(* The trace specification: the same callbacks on a smaller set of         *)
(* buffers, with the observer's record of every callback and event; the    *)
(* gateway is reachable throughout.                                        *)
(***************************************************************************)
ShortFrame == Buffer(10, 0, <<0, 0>>, "OTHER", ZeroWindow)
ShortTermFrame == Buffer(40, 5, <<0, 7>>, "VOICE_TERM", ZeroWindow)
NoTypeFrame == Buffer(25, 5, <<0, 7>>, "OTHER", ZeroWindow)
OtherFrame == Buffer(52, 5, <<1, 2>>, "OTHER", ZeroWindow)
TraceFrames ==
    {ShortFrame, NoTypeFrame, OtherFrame, HeadFrame(5), HeadFrame(9), TermFrame, VoiceFrame("SLOT1_VOICE")}
DumpFrames == {HeadFrame(5), ShortTermFrame}

\* group_voice handles one buffer; the events it hands over go through the
\* dispatcher, and the observer records the callback
TraceVoice(up, _src_sub, _dst_sub, _ts, _peerid, _data) ==
    /\ group_voice_call(_src_sub, _dst_sub, _ts, _peerid, _data)
    /\ \E d \in {Dispatch(last'.evs, up, nframes')} :
          /\ gateway' = gateway \o d.delivered
          /\ dropped' = dropped + d.dropped
    /\ calls' = calls \o Tagged(last'.evs, nframes')
    /\ hist' = Append(hist, [op |-> "group_voice", ts |-> _ts, data |-> _data, up |-> up,
                             fields |-> NoFields, outcome |-> last'.outcome])

\* dumpIPSCFrame dumps one buffer; the observer records the fields it decoded
TraceDump(_frame) ==
    /\ dumpIPSCFrame_call(_frame)
    /\ hist' = Append(hist, [op |-> "dumpIPSCFrame", ts |-> 1, data |-> _frame, up |-> TRUE,
                             fields |-> decode(_frame), outcome |-> last'.outcome])
    /\ UNCHANGED <<calls, gateway, dropped>>

NextTrace ==
    \/ \E _src_sub \in SrcSubs, _dst_sub \in DstSubs, _ts \in Slots,
          _peerid \in PeerIds, _data \in TraceFrames :
          TraceVoice(TRUE, _src_sub, _dst_sub, _ts, _peerid, _data)
    \/ \E _frame \in DumpFrames : TraceDump(_frame)

SpecTrace == Init /\ [][NextTrace]_vars

(***************************************************************************)
(* The gateway specification: the frames of one call, handled while the    *)
(* gateway is reachable or not, callback by callback.                      *)
(***************************************************************************)
GatewayFrames == {HeadFrame(5), VoiceFrame("SLOT1_VOICE"), TermFrame}

NextGateway ==
    \E up \in BOOLEAN, _src_sub \in SrcSubs, _dst_sub \in DstSubs, _ts \in Slots,
       _peerid \in PeerIds, _data \in GatewayFrames :
       TraceVoice(up, _src_sub, _dst_sub, _ts, _peerid, _data)

SpecGateway == Init /\ [][NextGateway]_vars

\* what the observer's record says about one timeslot
FramesOf(t) ==
    LET mine == SelectSeq(hist, LAMBDA e : e.op = "group_voice" /\ e.ts = t)
    IN [i \in 1..Len(mine) |-> mine[i].data]
CallsOf(t) == SelectSeq(calls, LAMBDA c : c.ev.slot = t)
EventsOf(t) == [i \in 1..Len(CallsOf(t)) |-> CallsOf(t)[i].ev]

(***************************************************************************)
(* C1.  From any IDLE slot, the buffers [voice-head(s), n voice-data,      *)
(* voice-term] yield exactly BeginCall(s), then n VoicePayload events      *)
(* with frame_count 1..n, then EndCall, and leave the slot IDLE.           *)
(***************************************************************************)
C1_CallSequence ==
    \A t \in Slots : ~tx[t].busy =>
        \A s \in StreamIds, kinds \in VoiceKinds :
            LET r == RunFrames(tx[t], t, CallFrames(s, kinds))
                n == Len(kinds)
            IN /\ r.ok
               /\ Len(r.evs) = n + 2
               /\ r.evs[1].type = "BeginCall"
               /\ r.evs[1].stream = s
               /\ \A i \in 1..n : /\ r.evs[i + 1].type = "VoicePayload"
                                  /\ r.evs[i + 1].frame_count = i
               /\ r.evs[n + 2].type = "EndCall"
               /\ ~r.slot.busy

(***************************************************************************)
(* C2.  Preemption: a voice-head with stream id b on a slot that is ACTIVE *)
(* with stream id a # b emits BeginCall(b) and no EndCall, and makes b the *)
(* slot's active stream; [voice-head(a), voice-head(b)] on a fresh slot    *)
(* yields BeginCall(a), BeginCall(b) and nothing else.                     *)
(***************************************************************************)
C2_Preemption ==
    /\ (Handled /\ IsHead /\ Pre.busy /\ LastStream # Pre.stream_id) =>
          /\ last.outcome = "ok"
          /\ Len(last.evs) = 1
          /\ last.evs[1].type = "BeginCall"
          /\ last.evs[1].stream = LastStream
          /\ Post.stream_id = LastStream
          /\ Post.busy
    /\ \A a \in StreamIds, t \in Slots : \A b \in StreamIds \ {a} :
          LET r == RunFrames(InitSlot, t, <<HeadFrame(a), HeadFrame(b)>>)
          IN /\ Len(r.evs) = 2
             /\ r.evs[1].type = "BeginCall" /\ r.evs[1].stream = a
             /\ r.evs[2].type = "BeginCall" /\ r.evs[2].stream = b

C2_Witness ==
    /\ Handled /\ IsHead /\ Pre.busy
    /\ Pre.stream_id = 5 /\ LastStream = 9 /\ Post.stream_id = 9
    /\ nBegin[last.ts] = 2 /\ nEnd[last.ts] = 0

(***************************************************************************)
(* C3.  Idempotent term: a voice-term on an IDLE slot emits no EndCall,    *)
(* raises nothing and leaves the slot's state unchanged; a slot never has  *)
(* more EndCall than BeginCall events.                                     *)
(***************************************************************************)
C3_IdempotentTerm ==
    /\ (Handled /\ IsTerm /\ ~Pre.busy) =>
          (Ends = 0 /\ last.outcome = "ok" /\ Post = Pre)
    /\ \A t \in Slots : nEnd[t] <= nBegin[t]

(***************************************************************************)
(* C4.  After a call on a slot was ended by voice-term, every voice-head   *)
(* on that slot emits BeginCall and makes the slot ACTIVE, whatever its    *)
(* stream id, the id of the call that just ended included.                 *)
(***************************************************************************)
C4_HeadFromIdle ==
    (Handled /\ IsHead /\ ~Pre.busy
       /\ Pre.stream_id # NoStream) =>
        /\ Begins = 1
        /\ Post.busy
        /\ Post.stream_id = LastStream

(***************************************************************************)
(* C5.  A buffer shorter than 31 bytes fails, emits no event and leaves    *)
(* every field of every slot unchanged.                                    *)
(***************************************************************************)
C5_Malformed ==
    (last.op # "none" /\ last.data.len < 31) =>
        /\ last.outcome # "ok"
        /\ last.evs = << >>
        /\ tx = last.pre

C9_BitCopy ==
    (Handled /\ IsVoice /\ last.data.len >= 52) =>
        /\ Len(last.evs) = 1
        /\ LET out == last.evs[1].payload
               src == BitArray(last.data.win)
           IN /\ Len(out) = 21
              /\ \A k \in 0..2 :
                    LET blk == BitArray(SubSeq(out, 7 * k + 1, 7 * k + 7))
                    IN /\ \A i \in 1..49 : blk[i] = src[SubFrameStart(k) + i]
                       /\ \A i \in 50..56 : blk[i] = 0
              /\ \A p0 \in Patterns, p1 \in Patterns, p2 \in Patterns, g \in {0, 1} :
                    last.data.win = PackStrided(p0, p1, p2, g) =>
                        /\ SubSeq(BitArray(SubSeq(out, 1, 7)), 1, 49) = p0
                        /\ SubSeq(BitArray(SubSeq(out, 8, 14)), 1, 49) = p1
                        /\ SubSeq(BitArray(SubSeq(out, 15, 21)), 1, 49) = p2

C9_Witness ==
    /\ Handled /\ IsVoice
    /\ last.data.win = PackStrided(Ones49, Alt10, Alt01, 1)
    /\ Len(last.evs) = 1
    /\ last.evs[1].payload =
          <<255, 255, 255, 255, 255, 255, 128>>
          \o <<170, 170, 170, 170, 170, 170, 128>>
          \o <<85, 85, 85, 85, 85, 85, 0>>

(***************************************************************************)
(* C10.  A voice-data buffer of at least 31 bytes whose AMBE window is     *)
(* shorter than 19 bytes fails with InsufficientData and emits no          *)
(* VoicePayload; a complete voice-data buffer emits its VoicePayload.      *)
(***************************************************************************)
C10_InsufficientData ==
    /\ (Handled /\ IsVoice /\ last.data.len >= 31 /\ Len(Slice(last.data, 33, 52)) < 19) =>
          (last.outcome = "InsufficientData" /\ Payloads = 0)
    /\ (Handled /\ IsVoice /\ Len(Slice(last.data, 33, 52)) = 19) => Payloads = 1

C14_DuplicateHead ==
    /\ (Handled /\ IsHead /\ Pre.busy /\ LastStream = Pre.stream_id) =>
          /\ last.evs = << >>
          /\ Post.stream_id = Pre.stream_id
          /\ Post.frame_count = Pre.frame_count
          /\ Post.lastSeq = int_id(Slice(last.data, 20, 22))
    /\ \A s \in StreamIds, t \in Slots :
          Count(RunFrames(InitSlot, t, <<HeadFrame(s), HeadFrame(s)>>).evs, "BeginCall") = 1

(***************************************************************************)
(* C14 as amended.  The duplicate head is counted as a processed frame:    *)
(* it emits no event, leaves active_stream_id and busy alone, records the  *)
(* frame's sequence as last_sequence and adds 1 to frame_count;            *)
(* [voice-head(s), voice-head(s)] on a fresh slot yields exactly one       *)
(* event, the BeginCall of the first frame.                                *)
(***************************************************************************)
C14_DuplicateHeadCounted ==
    /\ (Handled /\ IsHead /\ Pre.busy /\ LastStream = Pre.stream_id) =>
          /\ last.outcome = "ok"
          /\ last.evs = << >>
          /\ Post.stream_id = Pre.stream_id
          /\ Post.busy
          /\ Post.frame_count = Pre.frame_count + 1
          /\ Post.lastSeq = int_id(Slice(last.data, 20, 22))
    /\ \A s \in StreamIds, t \in Slots :
          LET r == RunFrames(InitSlot, t, <<HeadFrame(s), HeadFrame(s)>>)
          IN /\ Len(r.evs) = 1
             /\ r.evs[1].type = "BeginCall" /\ r.evs[1].stream = s
             /\ r.slot.frame_count = 1

C14_Witness ==
    /\ Handled /\ IsHead /\ Pre.busy /\ LastStream = 9 /\ Pre.stream_id = 9
    /\ Pre.lastSeq = 7 /\ Post.lastSeq = 258
    /\ Pre.frame_count = 0 /\ Post.frame_count = 1
    /\ last.evs = << >> /\ nBegin[last.ts] = 1

(***************************************************************************)
(* C15.  last_sequence of a slot is the sequence number (bytes 20..21,     *)
(* big-endian) of the most recent voice-head or voice-data frame handled   *)
(* on the slot, and 0 before the first; in particular it is the frame's    *)
(* sequence number right after a slot1-voice or slot2-voice frame, and no  *)
(* other frame changes it.                                                 *)
(***************************************************************************)
SeqFramesOf(t) ==
    SelectSeq(FramesOf(t),
              LAMBDA d : Slice(d, 30, 31) \in {<<"VOICE_HEAD">>, <<"SLOT1_VOICE">>, <<"SLOT2_VOICE">>})

C16_SlotIndependence ==
    /\ Handled => \A t \in Slots \ {last.ts} : tx[t] = last.pre[t]
    /\ \A t \in Slots :
          LET r == RunFrames(InitSlot, t, FramesOf(t))
          IN /\ r.slot = tx[t]
             /\ r.evs = EventsOf(t)

\* a call on timeslot 2 begins between the head and the voice data of a
\* call on timeslot 1
C16_Witness ==
    /\ Len(hist) = 3
    /\ \A i \in 1..3 : hist[i].op = "group_voice"
    /\ hist[1].ts = 1 /\ hist[1].data = HeadFrame(5)
    /\ hist[2].ts = 2 /\ hist[2].data = HeadFrame(9)
    /\ hist[3].ts = 1 /\ hist[3].data = VoiceFrame("SLOT1_VOICE")
    /\ tx[1].stream_id = 5 /\ tx[1].frame_count = 1
    /\ tx[2].stream_id = 9 /\ tx[2].frame_count = 0
    /\ Len(EventsOf(1)) = 2 /\ EventsOf(1)[2].stream = 5
    /\ Len(EventsOf(2)) = 1

(***************************************************************************)
(* C17.  A VoicePayload emitted while the slot is ACTIVE is tagged with    *)
(* the slot's active stream id, which is the stream id of the most recent  *)
(* BeginCall of the slot (after a preemption too), and carries the 16-bit  *)
(* sequence number of bytes 20..21 of its frame; a BeginCall carries the   *)
(* slot, source, destination and peer of the callback, the stream id of    *)
(* the head frame (byte 5) and the head frame's sequence number.           *)
(***************************************************************************)
LastBeginOf(t) ==
    LET bs == SelectSeq(EventsOf(t), LAMBDA ev : ev.type = "BeginCall")
    IN bs[Len(bs)]

C17_EventTags ==
    /\ \A t \in Slots : tx[t].busy =>
          /\ nBegin[t] > 0
          /\ tx[t].stream_id = LastBeginOf(t).stream
    /\ (Handled /\ IsVoice /\ Pre.busy) =>
          /\ Len(last.evs) = 1
          /\ last.evs[1].type = "VoicePayload"
          /\ last.evs[1].slot = last.ts
          /\ last.evs[1].stream = Pre.stream_id
          /\ last.evs[1].stream = LastBeginOf(last.ts).stream
          /\ last.evs[1].seq = 256 * last.data.b20 + last.data.b21
    /\ (Handled /\ Begins > 0) =>
          /\ IsHead
          /\ last.evs[1] = [type |-> "BeginCall", slot |-> last.ts,
                            src |-> CHOOSE x \in SrcSubs : TRUE,
                            dst |-> CHOOSE x \in DstSubs : TRUE,
                            peer |-> CHOOSE x \in PeerIds : TRUE,
                            stream |-> last.data.b5,
                            seq |-> 256 * last.data.b20 + last.data.b21]

\* voice data after a preemption: tagged with the preempting stream
C17_Witness ==
    /\ Len(hist) = 3
    /\ \A i \in 1..3 : hist[i].op = "group_voice" /\ hist[i].ts = 1
    /\ hist[1].data = HeadFrame(5)
    /\ hist[2].data = HeadFrame(9)
    /\ hist[3].data = VoiceFrame("SLOT1_VOICE")
    /\ Len(last.evs) = 1
    /\ last.evs[1].stream = 9 /\ last.evs[1].seq = 258 /\ ~last.evs[1].orphaned
    /\ EventsOf(1)[2].stream = 9 /\ EventsOf(1)[2].src = 3001 /\ EventsOf(1)[2].seq = 7

(***************************************************************************)
(* C18.  A processed frame emits at most one event, and the event's kind   *)
(* is fixed by the payload type: BeginCall only for voice-head, EndCall    *)
(* only for voice-term, VoicePayload only for slot1/slot2-voice.  A frame  *)
(* of any other payload type emits nothing and leaves active_stream_id,    *)
(* last_sequence and busy alone.  The events of a slot are handed over in  *)
(* the order of the frames that caused them.                               *)
(***************************************************************************)
C18_OneEventPerFrame ==
    /\ Handled =>
          /\ Len(last.evs) <= 1
          /\ Begins > 0 => IsHead
          /\ Ends > 0 => IsTerm
          /\ Payloads > 0 => IsVoice
    /\ (Handled /\ ~IsHead /\ ~IsTerm /\ ~IsVoice) =>
          /\ last.evs = << >>
          /\ Post.stream_id = Pre.stream_id
          /\ Post.lastSeq = Pre.lastSeq
          /\ Post.busy = Pre.busy
    /\ \A i \in 1..Len(calls) :
          /\ hist[calls[i].n].op = "group_voice"
          /\ hist[calls[i].n].ts = calls[i].ev.slot
          /\ \A j \in 1..Len(calls) : i < j => calls[i].n < calls[j].n

\* head, a frame of another payload type, voice data: two events, of the
\* first and the third frame
C18_Witness ==
    /\ Len(hist) = 3
    /\ \A i \in 1..3 : hist[i].op = "group_voice" /\ hist[i].ts = 1
    /\ hist[1].data = HeadFrame(5)
    /\ hist[2].data = OtherFrame /\ hist[2].outcome = "ok"
    /\ hist[3].data = VoiceFrame("SLOT1_VOICE")
    /\ Len(calls) = 2
    /\ calls[1].n = 1 /\ calls[1].ev.type = "BeginCall"
    /\ calls[2].n = 3 /\ calls[2].ev.type = "VoicePayload"
    /\ calls[2].ev.frame_count = 2

(***************************************************************************)
(* C19 as claimed.  The three sub-frames are consecutive in the window:    *)
(* block k of the payload holds the window bits [49k, 49k + 49), so the    *)
(* first 147 bits of the window are the 147 sub-frame bits of the payload, *)
(* in order, none skipped.                                                 *)
(***************************************************************************)
C19_Consecutive ==
    (Handled /\ IsVoice /\ last.data.len >= 52) =>
        /\ Len(last.evs) = 1
        /\ LET out == last.evs[1].payload
               src == BitArray(last.data.win)
           IN \A k \in 0..2 :
                 LET blk == BitArray(SubSeq(out, 7 * k + 1, 7 * k + 7))
                 IN \A i \in 1..49 : blk[i] = src[49 * k + i]

(***************************************************************************)
(* C19 as amended.  The sub-frames are 50 bits apart: block k of the       *)
(* payload holds the window bits [50k, 50k + 49).  Bits 49 and 99 of the   *)
(* window, between the sub-frames, and bits 149..151 after them are not    *)
(* copied: the payload is the same whatever they hold.                     *)
(***************************************************************************)
C19_FiftyBitStride ==
    (Handled /\ IsVoice /\ last.data.len >= 52) =>
        /\ Len(last.evs) = 1
        /\ LET out == last.evs[1].payload
               src == BitArray(last.data.win)
           IN /\ \A k \in 0..2 :
                    LET blk == BitArray(SubSeq(out, 7 * k + 1, 7 * k + 7))
                    IN \A i \in 1..49 : blk[i] = src[50 * k + i]
              /\ \A p0 \in Patterns, p1 \in Patterns, p2 \in Patterns, g \in {0, 1} :
                    last.data.win = PackStrided(p0, p1, p2, g) =>
                        out = AmbeOf[[last.data EXCEPT !.win = PackStrided(p0, p1, p2, 1 - g)]]

\* only the bits between and after the sub-frames are set: nothing of them
\* reaches the payload
C19_Witness ==
    /\ Handled /\ IsVoice
    /\ last.data.win = PackStrided(Zeros49, Zeros49, Zeros49, 1)
    /\ BitArray(last.data.win)[50] = 1 /\ BitArray(last.data.win)[100] = 1
    /\ Len(last.evs) = 1
    /\ last.evs[1].payload = [i \in 1..21 |-> 0]

====
